---- MODULE Spec2Model ----
(***************************************************************************)
(* Shared-expense settlement core of backend/server.py: the handlers       *)
(* create_shared_expense, confirm_shared_expense and get_settlements over  *)
(* the collections db.users, db.shared_expenses and db.notifications.      *)
(*                                                                         *)
(* Every handler is an asyncio coroutine: it runs without interruption     *)
(* between two awaits, and every await is a database call.  An action of   *)
(* this model is therefore one database call together with the             *)
(* synchronous Python code that follows it up to the next await (or up to  *)
(* the return / raise that ends the handler).                              *)
(*                                                                         *)
(* Amounts are Python floats.  They are modelled exactly, as integers      *)
(* counting units of 1/3200: the totals drawn are dyadic rationals, which  *)
(* a float holds exactly, and for those round(x, 2) is the round-half-even *)
(* of the true quotient to a whole number of cents.                        *)
(***************************************************************************)
EXTENDS Integers, Sequences, FiniteSets, TLC

\* ---- bounds of the model ----
MaxInvites == 2         \* longest participant_emails list drawn
MaxExpenses == 1        \* documents db.shared_expenses may hold
MaxReqs == 2            \* handlers that may be suspended at an await at once

\* one cent (the resolution of round(x, 2)) in model units of 1/3200
CentUnits == 32

\* ---- the inputs drawn ----
\* db.users: this core only reads it
users ==
    { [id |-> "u1", email |-> "a@x", full_name |-> "An"],
      [id |-> "u2", email |-> "b@x", full_name |-> "Binh"],
      [id |-> "u3", email |-> "c@x", full_name |-> "Chi"] }

UserIds == { u.id : u \in users }

\* the users drawn as creator: the handlers treat all users alike, so every
\* creation is, up to a renaming of the users, one by this user
Creators == { u \in users : u.id = "u1" }

\* "zz@x" belongs to no user
Emails == { "a@x", "b@x", "c@x", "zz@x" }

EmailLists == UNION { [1..n -> Emails] : n \in 0..MaxInvites }

\* total_amount values, in units: -1.00, 1/128, 0.375, 300000
Totals == { -100 * CentUnits, 25, 1200, 30000000 * CentUnits }

SplitTypes == { "equal", "custom" }

\* expense ids a caller may name: those generated and one never generated
ExpenseIds == 1..(MaxExpenses + 1)

VARIABLES
    shared_expenses,  \* db.shared_expenses, in insertion order
    notifications,    \* db.notifications, in insertion order
    reqs,             \* the handlers suspended at an await, by slot
    response,         \* the HTTP response sent last
    confirmCalls,     \* history: <<caller, expense id>> of the confirm calls
                      \* made by a participant of the expense
    createInputs      \* history: the participant_emails each stored expense
                      \* was created with, in the order of shared_expenses

vars == <<shared_expenses, notifications, reqs, response, confirmCalls,
          createInputs>>

NoDoc == [id |-> 0]

\* a slot holds the locals of its suspended handler: the participants list,
\* the expense_doc and the position i of the notification loop
Idle == [op |-> "none", pc |-> "idle", caller |-> "none", expense_id |-> 0,
         participants |-> <<>>, doc |-> NoDoc, i |-> 0]

\* a response: the status code, and of the body the part its handler sets
\* (the detail or message, the settlement records, the expense)
NoResponse == [op |-> "none", caller |-> "none", expense_id |-> 0,
               status |-> 0, detail |-> "", settlements |-> <<>>,
               expense |-> NoDoc]

\* slot r is the first free one
free(r) ==
    /\ reqs[r].pc = "idle"
    /\ \A q \in 1..(r - 1) : reqs[q].pc # "idle"

\* ---- helpers ----

\* db.users.find_one({"email": email}): the set is empty for None
find_user_by_email(email) == { u \in users : u.email = email }

\* a lookup that does not filter on the id
find_one_any(expense_id) == { i \in 1..Len(shared_expenses) : TRUE }

\* db.shared_expenses.find_one({"id": expense_id}): the set is empty for None
find_one(expense_id) ==
    { i \in 1..Len(shared_expenses) : shared_expenses[i].id = expense_id }

\* the dict appended for a resolved invitee, and for the creator
participant(u, paid, confirmed) ==
    [user_id |-> u.id, email |-> u.email, full_name |-> u.full_name,
     amount |-> 0, paid |-> paid, confirmed |-> confirmed]

\* a loop that keeps an entry for an email no user has
RECURSIVE invited_keeping_unknown(_)
invited_keeping_unknown(emails) ==
    IF emails = <<>> THEN <<>>
    ELSE LET found == find_user_by_email(Head(emails))
             rest == invited_keeping_unknown(Tail(emails))
             u == IF found # {} THEN CHOOSE v \in found : TRUE
                  ELSE [id |-> "unknown", email |-> Head(emails),
                        full_name |-> ""]
         IN  <<participant(u, 0, FALSE)>> \o rest

\* a loop that inserts each resolved invitee at the front of the list
RECURSIVE invited_reversed(_)
invited_reversed(emails) ==
    IF emails = <<>> THEN <<>>
    ELSE LET found == find_user_by_email(Head(emails))
             rest == invited_reversed(Tail(emails))
         IN  IF found # {}
             THEN rest \o <<participant(CHOOSE u \in found : TRUE, 0, FALSE)>>
             ELSE rest

\* the loop over participant_emails: unresolved emails are skipped
RECURSIVE invited(_)
invited(emails) ==
    IF emails = <<>> THEN <<>>
    ELSE LET found == find_user_by_email(Head(emails))
             rest == invited(Tail(emails))
         IN  IF found # {}
             THEN <<participant(CHOOSE u \in found : TRUE, 0, FALSE)>> \o rest
             ELSE rest

\* nearest integer to num / den (den > 0), ties to the even integer
RoundHalfEven(num, den) ==
    LET q == num \div den
        r == num % den
    IN  IF 2 * r < den THEN q
        ELSE IF 2 * r > den THEN q + 1
        ELSE IF q % 2 = 0 THEN q ELSE q + 1

\* a share cut off after 2 decimals instead of rounded
amount_per_person_truncated(total_amount, n) ==
    CentUnits * (total_amount \div (CentUnits * n))

\* round(total_amount / len(participants), 2), in units
amount_per_person(total_amount, n) ==
    CentUnits * RoundHalfEven(total_amount, CentUnits * n)

\* a list whose creator entry starts unpaid
build_participants_unpaid(creator, emails, total_amount, split_type) ==
    LET ps == invited(emails) \o <<participant(creator, 0, TRUE)>>
    IN  IF split_type = "equal"
        THEN [i \in 1..Len(ps) |->
                [ps[i] EXCEPT !.amount = amount_per_person(total_amount, Len(ps))]]
        ELSE ps

\* a list that takes the creator's invited entry for the creator's own
build_participants_creator_once(creator, emails, total_amount, split_type) ==
    LET inv == invited(emails)
        ps == IF \E i \in 1..Len(inv) : inv[i].user_id = creator.id
              THEN [i \in 1..Len(inv) |->
                      IF inv[i].user_id = creator.id
                      THEN participant(creator, total_amount, TRUE)
                      ELSE inv[i]]
              ELSE inv \o <<participant(creator, total_amount, TRUE)>>
    IN  IF split_type = "equal"
        THEN [i \in 1..Len(ps) |->
                [ps[i] EXCEPT !.amount = amount_per_person(total_amount, Len(ps))]]
        ELSE ps

\* a list whose invitees start with their share paid
build_participants_prepaid(creator, emails, total_amount, split_type) ==
    LET ps == invited(emails) \o <<participant(creator, total_amount, TRUE)>>
    IN  IF split_type = "equal"
        THEN [i \in 1..Len(ps) |->
                [ps[i] EXCEPT
                   !.amount = amount_per_person(total_amount, Len(ps)),
                   !.paid = IF i < Len(ps)
                            THEN amount_per_person(total_amount, Len(ps))
                            ELSE total_amount]]
        ELSE ps

\* the participants list create_shared_expense builds
build_participants(creator, emails, total_amount, split_type) ==
    LET ps == invited(emails) \o <<participant(creator, total_amount, TRUE)>>
    IN  IF split_type = "equal"
        THEN [i \in 1..Len(ps) |->
                [ps[i] EXCEPT !.amount = amount_per_person(total_amount, Len(ps))]]
        ELSE ps

\* a loop that skips nobody
next_notified_everyone(ps, creator_id, i) == IF i > Len(ps) THEN 0 ELSE i

\* index of the first participant at or after i that the notification loop
\* does not skip, 0 when there is none
RECURSIVE next_notified(_, _, _)
next_notified(ps, creator_id, i) ==
    IF i > Len(ps) THEN 0
    ELSE IF ps[i].user_id # creator_id THEN i
    ELSE next_notified(ps, creator_id, i + 1)

\* the scan of confirm_shared_expense: the first entry of the caller is set
\* confirmed, and the loop breaks
RECURSIVE first_of(_, _, _)
first_of(ps, user_id, i) ==
    IF i > Len(ps) THEN 0
    ELSE IF ps[i].user_id = user_id THEN i
    ELSE first_of(ps, user_id, i + 1)

\* a scan that marks every entry instead of the caller's
confirm_scan_everyone(ps, user_id) ==
    LET k == first_of(ps, user_id, 1)
    IN  [updated |-> k # 0,
         participants |-> IF k = 0 THEN ps
                          ELSE [i \in 1..Len(ps) |->
                                  [ps[i] EXCEPT !.confirmed = TRUE]]]

\* a scan that never finds the caller missing
confirm_scan_unchecked(ps, user_id) ==
    LET k == first_of(ps, user_id, 1)
    IN  [updated |-> TRUE,
         participants |-> IF k = 0 THEN ps
                          ELSE [ps EXCEPT ![k].confirmed = TRUE]]

\* a scan that flips the flag of the caller's entry
confirm_scan_toggle(ps, user_id) ==
    LET k == first_of(ps, user_id, 1)
    IN  [updated |-> k # 0,
         participants |-> IF k = 0 THEN ps
                          ELSE [ps EXCEPT ![k].confirmed = ~ps[k].confirmed]]

\* a scan that records the caller's share as paid
confirm_scan_paying(ps, user_id) ==
    LET k == first_of(ps, user_id, 1)
    IN  [updated |-> k # 0,
         participants |-> IF k = 0 THEN ps
                          ELSE [ps EXCEPT ![k].confirmed = TRUE,
                                          ![k].paid = ps[k].amount]]

\* a scan without the break: every entry of the caller is marked
confirm_scan_no_break(ps, user_id) ==
    [updated |-> first_of(ps, user_id, 1) # 0,
     participants |-> [i \in 1..Len(ps) |->
                         IF ps[i].user_id = user_id
                         THEN [ps[i] EXCEPT !.confirmed = TRUE]
                         ELSE ps[i]]]

confirm_scan(ps, user_id) ==
    LET k == first_of(ps, user_id, 1)
    IN  [updated |-> k # 0,
         participants |-> IF k = 0 THEN ps
                          ELSE [ps EXCEPT ![k].confirmed = TRUE]]

\* a record that calls a zero balance owing
settlement_strict(p) ==
    LET balance == p.paid - p.amount
    IN  [user_id |-> p.user_id, user_name |-> p.full_name,
         amount_owed |-> p.amount, amount_paid |-> p.paid,
         balance |-> balance,
         status |-> IF balance > 0 THEN "settled" ELSE "owes"]

\* the record get_settlements appends for one participant
settlement(p) ==
    LET balance == p.paid - p.amount
    IN  [user_id |-> p.user_id, user_name |-> p.full_name,
         amount_owed |-> p.amount, amount_paid |-> p.paid,
         balance |-> balance,
         status |-> IF balance >= 0 THEN "settled" ELSE "owes"]

settlements(ps) == [i \in 1..Len(ps) |-> settlement(ps[i])]

\* an update whose filter matches no document
update_participants_unmatched(expense_id, ps) == shared_expenses

\* update_one({"id": expense_id}, {"$set": {"participants": ps}}): the first
\* matching document, none when there is no match
update_participants(expense_id, ps) ==
    LET found == find_one(expense_id)
    IN  IF found = {} THEN shared_expenses
        ELSE LET k == CHOOSE i \in found : \A j \in found : i <= j
             IN  [shared_expenses EXCEPT ![k].participants = ps]

Respond(op, caller, expense_id, status, detail) ==
    [op |-> op, caller |-> caller, expense_id |-> expense_id,
     status |-> status, detail |-> detail, settlements |-> <<>>,
     expense |-> NoDoc]

\* ---- initial state ----
Init ==
    /\ shared_expenses = <<>>
    /\ notifications = <<>>
    /\ reqs = [r \in 1..MaxReqs |-> Idle]
    /\ response = NoResponse
    /\ confirmCalls = {}
    /\ createInputs = <<>>

\* ---- create_shared_expense ----

\* from the call to the return of insert_one (the users lookups read a
\* collection nothing here writes), and on to the return when the
\* notification loop has nobody to notify
CreateInsert(r, creator, emails, total_amount, split_type) ==
    /\ Len(shared_expenses) < MaxExpenses
    /\ LET ps == build_participants(creator, emails, total_amount, split_type)
           expense_id == Len(shared_expenses) + 1
           expense_doc == [id |-> expense_id, creator_id |-> creator.id,
                           participants |-> ps, status |-> "active",
                           total_amount |-> total_amount,
                           split_type |-> split_type]
           i == next_notified(ps, creator.id, 1)
       IN  /\ shared_expenses' = Append(shared_expenses, expense_doc)
           /\ createInputs' = Append(createInputs, emails)
           /\ IF i = 0
              THEN /\ reqs' = reqs
                   /\ response' = [Respond("create", creator.id, expense_id,
                                           200, "")
                                      EXCEPT !.expense = expense_doc]
              ELSE /\ free(r)
                   /\ reqs' = [reqs EXCEPT ![r] =
                                [op |-> "create", pc |-> "notify",
                                 caller |-> creator.id,
                                 expense_id |-> expense_id,
                                 participants |-> ps, doc |-> expense_doc,
                                 i |-> i]]
                   /\ response' = response
    /\ UNCHANGED <<notifications, confirmCalls>>

\* one notifications.insert_one, and the return when it was the last; the
\* expense_id of the record stands for its content, which names the creator
\* and the title of the expense
CreateNotify(r) ==
    /\ reqs[r].pc = "notify"
    /\ LET p == reqs[r].participants[reqs[r].i]
           j == next_notified(reqs[r].participants, reqs[r].caller,
                              reqs[r].i + 1)
       IN  /\ notifications' = Append(notifications,
                  [user_id |-> p.user_id, type |-> "shared_expense_added",
                   expense_id |-> reqs[r].expense_id, read |-> FALSE])
           /\ IF j = 0
              THEN /\ reqs' = [reqs EXCEPT ![r] = Idle]
                   /\ response' = [Respond("create", reqs[r].caller,
                                           reqs[r].expense_id, 200, "")
                                      EXCEPT !.expense = reqs[r].doc]
              ELSE /\ reqs' = [reqs EXCEPT ![r].i = j]
                   /\ response' = response
    /\ UNCHANGED <<shared_expenses, confirmCalls, createInputs>>

\* notifications.insert_one raises: nothing catches it, the handler ends
\* with an internal server error
CreateNotifyFail(r) ==
    /\ reqs[r].pc = "notify"
    /\ reqs' = [reqs EXCEPT ![r] = Idle]
    /\ response' = Respond("create", reqs[r].caller, reqs[r].expense_id,
                           500, "Internal Server Error")
    /\ UNCHANGED <<shared_expenses, notifications, confirmCalls, createInputs>>

\* ---- confirm_shared_expense ----

\* find_one, the scan, and the raise of 404 or 403
ConfirmRead(r, caller, expense_id) ==
    /\ LET found == find_one(expense_id)
       IN  IF found = {}
           THEN /\ response' = Respond("confirm", caller, expense_id, 404,
                                       "Shared expense not found")
                /\ UNCHANGED <<reqs, confirmCalls>>
           ELSE LET expense == shared_expenses[CHOOSE i \in found :
                                                 \A j \in found : i <= j]
                    scan == confirm_scan(expense.participants, caller)
                IN  IF ~scan.updated
                       THEN /\ response' = Respond("confirm", caller,
                                       expense_id, 403,
                                       "You are not a participant")
                            /\ UNCHANGED <<reqs, confirmCalls>>
                       ELSE /\ free(r)
                            /\ confirmCalls' =
                                   confirmCalls \cup {<<caller, expense_id>>}
                            /\ reqs' = [reqs EXCEPT ![r] =
                                         [op |-> "confirm", pc |-> "write",
                                          caller |-> caller,
                                          expense_id |-> expense_id,
                                          participants |-> scan.participants,
                                          doc |-> NoDoc, i |-> 0]]
                            /\ response' = response
    /\ UNCHANGED <<shared_expenses, notifications, createInputs>>

\* update_one, and the return
ConfirmWrite(r) ==
    /\ reqs[r].pc = "write"
    /\ shared_expenses' =
           update_participants(reqs[r].expense_id, reqs[r].participants)
    /\ reqs' = [reqs EXCEPT ![r] = Idle]
    /\ response' = Respond("confirm", reqs[r].caller, reqs[r].expense_id,
                           200, "Confirmed")
    /\ UNCHANGED <<notifications, confirmCalls, createInputs>>

\* ---- get_settlements ----

\* a handler that answers participants of the expense only
GetSettlements_members_only(caller, expense_id) ==
    /\ LET found == find_one(expense_id)
       IN  IF found = {}
           THEN response' = Respond("settlements", caller, expense_id, 404,
                                    "Shared expense not found")
           ELSE LET expense == shared_expenses[CHOOSE i \in found :
                                                 \A j \in found : i <= j]
                IN  IF \E i \in 1..Len(expense.participants) :
                          expense.participants[i].user_id = caller
                    THEN response' =
                        [Respond("settlements", caller, expense_id, 200, "")
                           EXCEPT !.settlements =
                                      settlements(expense.participants)]
                    ELSE response' = Respond("settlements", caller,
                                 expense_id, 403, "You are not a participant")
    /\ UNCHANGED <<shared_expenses, notifications, reqs, confirmCalls,
                   createInputs>>

GetSettlements(caller, expense_id) ==
    /\ LET found == find_one(expense_id)
       IN  IF found = {}
           THEN response' = Respond("settlements", caller, expense_id, 404,
                                    "Shared expense not found")
           ELSE LET expense == shared_expenses[CHOOSE i \in found :
                                                 \A j \in found : i <= j]
                IN  response' =
                        [Respond("settlements", caller, expense_id, 200, "")
                           EXCEPT !.settlements =
                                      settlements(expense.participants)]
    /\ UNCHANGED <<shared_expenses, notifications, reqs, confirmCalls,
                   createInputs>>

Next ==
    \/ \E r \in 1..MaxReqs, creator \in Creators, emails \in EmailLists,
          total_amount \in Totals, split_type \in SplitTypes :
          CreateInsert(r, creator, emails, total_amount, split_type)
    \/ \E r \in 1..MaxReqs : CreateNotify(r)
    \/ \E r \in 1..MaxReqs : CreateNotifyFail(r)
    \/ \E r \in 1..MaxReqs, caller \in UserIds, expense_id \in ExpenseIds :
          ConfirmRead(r, caller, expense_id)
    \/ \E r \in 1..MaxReqs : ConfirmWrite(r)
    \/ \E caller \in UserIds, expense_id \in ExpenseIds :
          GetSettlements(caller, expense_id)

Spec == Init /\ [][Next]_vars

\* ---- the claims ----

TypeOK ==
    /\ Len(shared_expenses) <= MaxExpenses
    /\ Len(createInputs) = Len(shared_expenses)
    /\ \A k \in 1..Len(shared_expenses) : shared_expenses[k].id = k
    /\ \A r \in 1..MaxReqs : reqs[r].pc \in {"idle", "notify", "write"}
    /\ confirmCalls \subseteq UserIds \X ExpenseIds

user_ids(ps) == { ps[i].user_id : i \in 1..Len(ps) }

\* the caller's entry the confirm scan marks
entry_of(ps, user_id) == ps[first_of(ps, user_id, 1)]

\* no confirm handler is suspended on the expense
confirms_completed(expense_id) ==
    \A r \in 1..MaxReqs :
        ~(reqs[r].op = "confirm" /\ reqs[r].expense_id = expense_id)

\* the stored expense of that id (the expense exists)
stored(expense_id) ==
    shared_expenses[CHOOSE i \in find_one(expense_id) :
                      \A j \in find_one(expense_id) : i <= j]

\* C1: when two different participants of an expense have both called
\* confirm and both calls have completed, both their entries are confirmed
\* in the stored expense, whatever the interleaving of the reads and writes.
C1_NoLostUpdate ==
    \A k \in 1..Len(shared_expenses) : \A u, v \in UserIds :
        LET d == shared_expenses[k]
        IN  ( /\ u # v
              /\ <<u, d.id>> \in confirmCalls
              /\ <<v, d.id>> \in confirmCalls
              /\ confirms_completed(d.id) )
            => /\ entry_of(d.participants, u).confirmed
               /\ entry_of(d.participants, v).confirmed

\* C2: confirmation is one-way: no step turns a stored participant entry
\* that is confirmed into one that is not.
C2_OneWay ==
    [][ \A k \in 1..Len(shared_expenses) :
          \A i \in 1..Len(shared_expenses[k].participants) :
            shared_expenses[k].participants[i].confirmed
            => shared_expenses'[k].participants[i].confirmed ]_vars

C4_ForbiddenNoWrite ==
    [][ /\ ( /\ response' # response
             /\ response'.op = "confirm"
             /\ response'.status = 403 )
           => /\ shared_expenses' = shared_expenses
              /\ reqs' = reqs
              /\ find_one(response'.expense_id) # {}
              /\ response'.caller \notin
                     user_ids(stored(response'.expense_id).participants)
        /\ ( /\ response' # response
             /\ response'.op = "confirm"
             /\ response'.status # 403
             /\ find_one(response'.expense_id) # {} )
           => response'.caller \in
                  user_ids(stored(response'.expense_id).participants)
        /\ \A r \in 1..MaxReqs :
             reqs'[r].pc = "write"
             => reqs'[r].caller \in
                    user_ids(stored(reqs'[r].expense_id).participants) ]_vars

\* a user who is no participant of a stored expense was answered 403
C4_Witness ==
    /\ response.op = "confirm"
    /\ response.status = 403
    /\ find_one(response.expense_id) # {}
    /\ response.caller \notin user_ids(stored(response.expense_id).participants)

\* C5: the expense a create stores holds an entry of the creator that is
\* confirmed and has paid the whole total_amount.
C5_CreatorPaidConfirmed ==
    [][ Len(shared_expenses') = Len(shared_expenses) + 1
        => LET d == shared_expenses'[Len(shared_expenses')]
           IN  \E i \in 1..Len(d.participants) :
                 /\ d.participants[i].user_id = d.creator_id
                 /\ d.participants[i].confirmed
                 /\ d.participants[i].paid = d.total_amount ]_vars

\* an expense created with resolved invitees is stored
C5_Witness ==
    \E k \in 1..Len(shared_expenses) :
        LET d == shared_expenses[k]
            n == Len(d.participants)
        IN  /\ n >= 2
            /\ d.participants[n].user_id = d.creator_id
            /\ d.participants[n].confirmed
            /\ d.participants[n].paid = d.total_amount
            /\ d.total_amount # 0

\* C6: a confirm that ran on the list as stored (nothing was written
\* between its read and its write) is answered 200, leaves the caller's
\* entry confirmed and every other entry as it was, and changes nothing at
\* all when the caller's entry was confirmed already: a second confirm in
\* sequence leaves the state of the first.
C6_ConfirmIdempotent ==
    [][ \A r \in 1..MaxReqs :
          (reqs[r].pc = "write" /\ reqs'[r].pc = "idle")
          => LET before == stored(reqs[r].expense_id).participants
                 after == shared_expenses'[reqs[r].expense_id].participants
                 k == first_of(before, reqs[r].caller, 1)
             IN  (\A i \in 1..Len(before) :
                    i # k => reqs[r].participants[i] = before[i])
                 => /\ response'.status = 200
                    /\ Len(after) = Len(before)
                    /\ after[k].confirmed
                    /\ \A i \in 1..Len(before) : i # k => after[i] = before[i]
                    /\ before[k].confirmed
                       => shared_expenses' = shared_expenses ]_vars

\* the creator, whose only entry was confirmed at creation, confirmed
C6_Witness ==
    /\ response.op = "confirm"
    /\ response.status = 200
    /\ find_one(response.expense_id) # {}
    /\ LET d == stored(response.expense_id)
       IN  /\ response.caller = d.creator_id
           /\ first_of(d.participants, d.creator_id, 1) = Len(d.participants)
           /\ Len(d.participants) >= 2

known_email(email) == \E u \in users : u.email = email

\* C7: the stored participants are one entry per input email that a user
\* has, and the creator: an email no user has gives no entry, and an
\* expense created with only such emails is stored with the creator as its
\* one participant and answered 200.
C7_UnresolvedDropped ==
    /\ [](\A k \in 1..Len(shared_expenses) :
            LET ps == shared_expenses[k].participants
                emails == createInputs[k]
                resolved == { j \in 1..Len(emails) : known_email(emails[j]) }
            IN  /\ Len(ps) = Cardinality(resolved) + 1
                /\ \A i \in 1..Len(ps) : known_email(ps[i].email)
                /\ \A i \in 1..(Len(ps) - 1) :
                     \E j \in resolved : emails[j] = ps[i].email
                /\ resolved = {}
                   => /\ Len(ps) = 1
                      /\ ps[1].user_id = shared_expenses[k].creator_id)
    /\ [][ ( /\ Len(shared_expenses') = Len(shared_expenses) + 1
             /\ \A j \in 1..Len(createInputs'[Len(createInputs')]) :
                  ~known_email(createInputs'[Len(createInputs')][j]) )
           => /\ response'.op = "create"
              /\ response'.status = 200
              /\ response'.expense = shared_expenses'[Len(shared_expenses')]
              /\ Len(response'.expense.participants) = 1 ]_vars

\* an expense was created with emails none of which a user has
C7_Witness ==
    \E k \in 1..Len(shared_expenses) :
        /\ Len(createInputs[k]) = MaxInvites
        /\ \A j \in 1..Len(createInputs[k]) : ~known_email(createInputs[k][j])
        /\ Len(shared_expenses[k].participants) = 1
        /\ response.op = "create"
        /\ response.status = 200

RECURSIVE sum_amounts(_)
sum_amounts(ps) ==
    IF ps = <<>> THEN 0 ELSE Head(ps).amount + sum_amounts(Tail(ps))

abs(x) == IF x < 0 THEN -x ELSE x

\* C8: in an expense split equally among n participants every amount is
\* the same whole number of cents, at most half a cent from
\* total_amount / n, and the sum of the amounts is within n half cents of
\* total_amount: no entry takes up the residue.
C8_EqualSplit ==
    \A k \in 1..Len(shared_expenses) :
        LET d == shared_expenses[k]
            ps == d.participants
            n == Len(ps)
        IN  d.split_type = "equal"
            => /\ \A i \in 1..n : ps[i].amount = ps[1].amount
               /\ ps[1].amount % CentUnits = 0
               /\ 2 * abs(n * ps[1].amount - d.total_amount) <= n * CentUnits
               /\ sum_amounts(ps) = n * ps[1].amount
               /\ 2 * abs(sum_amounts(ps) - d.total_amount) <= n * CentUnits

\* an equal split among three whose amounts do not add up to the total
C8_Witness ==
    \E k \in 1..Len(shared_expenses) :
        LET d == shared_expenses[k]
        IN  /\ d.split_type = "equal"
            /\ Len(d.participants) = 3
            /\ sum_amounts(d.participants) # d.total_amount
            /\ d.total_amount > 0

\* the records of a settlements response, against the stored participants
settlement_records_match(recs, ps) ==
    /\ Len(recs) = Len(ps)
    /\ \A i \in 1..Len(ps) :
         /\ recs[i].user_id = ps[i].user_id
         /\ recs[i].amount_owed = ps[i].amount
         /\ recs[i].amount_paid = ps[i].paid
         /\ recs[i].balance = ps[i].paid - ps[i].amount
         /\ recs[i].status = IF recs[i].balance >= 0 THEN "settled" ELSE "owes"

\* C9 as stated: the settlements of an expense are one record per stored
\* participant, in order, with balance = paid - amount and the status by
\* its sign; and for an equal split of a positive total with invitees the
\* creator's record has balance total - share and is "settled" and the
\* record of every invitee other than the creator has balance -share and
\* is "owes".
C9_SettlementsAsStated ==
    (response.op = "settlements" /\ response.status = 200)
    => LET d == stored(response.expense_id)
           ps == d.participants
           n == Len(ps)
           recs == response.settlements
       IN  /\ settlement_records_match(recs, ps)
           /\ (d.split_type = "equal" /\ n >= 2 /\ d.total_amount > 0)
              => /\ recs[n].balance = d.total_amount - ps[n].amount
                 /\ recs[n].status = "settled"
                 /\ \A i \in 1..(n - 1) :
                      ps[i].user_id # d.creator_id
                      => /\ recs[i].balance = -ps[n].amount
                         /\ recs[i].status = "owes"

\* C9 as amended: the settlements of an expense are one record per stored
\* participant, in order, with balance = paid - amount and the status by
\* its sign; and for an equal split with invitees the creator's record has
\* balance total - share and is "settled" exactly when total >= share, and
\* every invitee's record has balance -share and is "owes" exactly when
\* share > 0 (with a share that rounds to 0.00 it is "settled").
C9_Settlements ==
    (response.op = "settlements" /\ response.status = 200)
    => LET d == stored(response.expense_id)
           ps == d.participants
           n == Len(ps)
           recs == response.settlements
       IN  /\ settlement_records_match(recs, ps)
           /\ (d.split_type = "equal" /\ n >= 2)
              => /\ recs[n].balance = d.total_amount - ps[n].amount
                 /\ recs[n].status = "settled" <=> d.total_amount >= ps[n].amount
                 /\ \A i \in 1..(n - 1) :
                      /\ recs[i].balance = -ps[n].amount
                      /\ recs[i].status = "owes" <=> ps[n].amount > 0

\* the settlements of 300000 split equally among two invitees and the
\* creator: 200000 "settled", and twice -100000 "owes"
C9_Witness ==
    /\ response.op = "settlements"
    /\ response.status = 200
    /\ Len(response.settlements) = 3
    /\ response.settlements[3].balance = 20000000 * CentUnits
    /\ response.settlements[3].status = "settled"
    /\ \A i \in 1..2 :
         /\ response.settlements[i].balance = -10000000 * CentUnits
         /\ response.settlements[i].status = "owes"
         /\ response.settlements[i].user_id # response.settlements[3].user_id

\* C10: a settlements call changes no collection and no suspended handler,
\* and a call on an expense that follows an answered call on the same
\* expense, the stored list being the same, gets the same records, whoever
\* its caller is.
C10_PureRead ==
    [][ (response' # response /\ response'.op = "settlements")
        => /\ UNCHANGED <<shared_expenses, notifications, reqs>>
           /\ ( /\ response.op = "settlements"
                /\ response.status = 200
                /\ response.expense_id = response'.expense_id )
              => /\ response'.status = 200
                 /\ response'.settlements = response.settlements ]_vars

\* a user who is no participant of the expense was given its settlements
C10_Witness ==
    /\ response.op = "settlements"
    /\ response.status = 200
    /\ response.caller \notin user_ids(stored(response.expense_id).participants)
    /\ Len(response.settlements) >= 2

\* no stored expense has that id
absent(expense_id) ==
    \A i \in 1..Len(shared_expenses) : shared_expenses[i].id # expense_id

\* C11: a confirm or a settlements call naming an id no stored expense has
\* is answered 404 and changes no collection and no suspended handler; only
\* such calls are answered 404, and no confirm write is ever pending for an
\* absent expense.
C11_NotFound ==
    [][ /\ ( /\ response' # response
             /\ response'.op \in {"confirm", "settlements"}
             /\ absent(response'.expense_id) )
           => /\ response'.status = 404
              /\ response'.detail = "Shared expense not found"
              /\ UNCHANGED <<shared_expenses, notifications, reqs>>
        /\ (response' # response /\ response'.status = 404)
           => /\ response'.op \in {"confirm", "settlements"}
              /\ absent(response'.expense_id)
        /\ \A r \in 1..MaxReqs :
             reqs'[r].pc = "write" => ~absent(reqs'[r].expense_id) ]_vars

\* a confirm named an id that no stored expense has, another being stored
C11_Witness ==
    /\ response.op = "confirm"
    /\ response.status = 404
    /\ Len(shared_expenses) >= 1
    /\ absent(response.expense_id)

\* the user ids of the list are pairwise different
distinct_user_ids(ps) ==
    \A i, j \in 1..Len(ps) : i # j => ps[i].user_id # ps[j].user_id

\* C12 as stated: every stored expense has a non-empty participants list in
\* which no user id appears twice.
C12_DistinctIdentities ==
    \A k \in 1..Len(shared_expenses) :
        /\ Len(shared_expenses[k].participants) >= 1
        /\ distinct_user_ids(shared_expenses[k].participants)

\* C12 as amended: every stored expense has a non-empty participants list,
\* one entry per occurrence of a resolvable email in the invite list and
\* one, the last, for the creator; its user ids are pairwise different
\* exactly when the invite list repeats no resolvable email and does not
\* hold the creator's own email.
C12_OneEntryPerOccurrence ==
    \A k \in 1..Len(shared_expenses) :
        LET d == shared_expenses[k]
            ps == d.participants
            emails == createInputs[k]
            resolved == { j \in 1..Len(emails) : known_email(emails[j]) }
        IN  /\ Len(ps) >= 1
            /\ Len(ps) = Cardinality(resolved) + 1
            /\ ps[Len(ps)].user_id = d.creator_id
            /\ distinct_user_ids(ps)
               <=> /\ \A i, j \in resolved : i # j => emails[i] # emails[j]
                   /\ \A j \in resolved :
                        \A u \in users :
                          u.email = emails[j] => u.id # d.creator_id

\* an expense is stored whose list holds an invitee twice
C12_Witness ==
    \E k \in 1..Len(shared_expenses) :
        LET ps == shared_expenses[k].participants
        IN  /\ Len(ps) = 3
            /\ ps[1].user_id = ps[2].user_id
            /\ ps[1].user_id # shared_expenses[k].creator_id

\* C13: a create handler that has stored its expense ends with a 200 that
\* returns the expense, whether or not a notification insert failed, and
\* the expense stays stored.
C13_NotificationFailureSwallowed ==
    [][ \A r \in 1..MaxReqs :
          (reqs[r].pc = "notify" /\ reqs'[r].pc = "idle")
          => /\ response'.op = "create"
             /\ response'.status = 200
             /\ response'.expense = reqs[r].doc
             /\ ~absent(reqs[r].expense_id)
             /\ shared_expenses' = shared_expenses ]_vars

\* C14: no expense with total_amount <= 0 is ever stored, and no
\* notification is emitted for one.
C14_InvalidAmount ==
    /\ \A k \in 1..Len(shared_expenses) : shared_expenses[k].total_amount > 0
    /\ \A m \in 1..Len(notifications) :
         \A k \in 1..Len(shared_expenses) :
           shared_expenses[k].id = notifications[m].expense_id
           => shared_expenses[k].total_amount > 0

\* the notifications emitted for the expense that go to the user
notified(expense_id, user_id) ==
    { m \in 1..Len(notifications) :
        /\ notifications[m].expense_id = expense_id
        /\ notifications[m].user_id = user_id }

\* the entries of the list that belong to the user
entries_of(ps, user_id) == { i \in 1..Len(ps) : ps[i].user_id = user_id }

\* C15: a create answered 200 has emitted, for every user other than the
\* creator, as many notifications as the stored list has entries of that
\* user, each addressed to that user, and none to the creator; and a
\* notification is inserted only for an expense that is already stored.
C15_Notifications ==
    /\ [](/\ \A k \in 1..Len(shared_expenses) : \A u \in UserIds :
                LET d == shared_expenses[k]
                IN  /\ notified(d.id, d.creator_id) = {}
                    /\ Cardinality(notified(d.id, u))
                         <= Cardinality(entries_of(d.participants, u))
          /\ \A m \in 1..Len(notifications) :
                /\ ~absent(notifications[m].expense_id)
                /\ notifications[m].user_id \in UserIds
          /\ (response.op = "create" /\ response.status = 200)
             => \A u \in UserIds :
                  LET d == stored(response.expense_id)
                  IN  u # d.creator_id
                      => Cardinality(notified(d.id, u))
                           = Cardinality(entries_of(d.participants, u)))
    /\ [][ notifications' # notifications
           => /\ Len(notifications') = Len(notifications) + 1
              /\ ~absent(notifications'[Len(notifications')].expense_id)
              /\ shared_expenses' = shared_expenses ]_vars

\* a create that notified two different invitees was answered 200
C15_Witness ==
    /\ response.op = "create"
    /\ response.status = 200
    /\ Len(notifications) = 2
    /\ notifications[1].user_id # notifications[2].user_id
    /\ Len(stored(response.expense_id).participants) = 3

\* C16: the list a create stores is the resolvable emails of the invite
\* list, in its order, each as an entry of the user who has the email with
\* paid = 0 and confirmed = false, followed by the creator's entry.
C16_InviteesThenCreator ==
    [][ Len(shared_expenses') = Len(shared_expenses) + 1
        => LET d == shared_expenses'[Len(shared_expenses')]
               ps == d.participants
               n == Len(ps)
               emails == SelectSeq(createInputs'[Len(createInputs')],
                                   known_email)
           IN  /\ n = Len(emails) + 1
               /\ ps[n].user_id = d.creator_id
               /\ \A i \in 1..(n - 1) :
                    /\ ps[i].email = emails[i]
                    /\ \E u \in users : u.email = emails[i]
                                        /\ u.id = ps[i].user_id
                    /\ ps[i].paid = 0
                    /\ ~ps[i].confirmed ]_vars

\* an expense created with <<"c@x", "b@x">>: its list is the owner of c@x,
\* the owner of b@x and then the creator, the invitees unpaid and unconfirmed
C16_Witness ==
    \E k \in 1..Len(shared_expenses) :
        LET ps == shared_expenses[k].participants
        IN  /\ createInputs[k] = <<"c@x", "b@x">>
            /\ Len(ps) = 3
            /\ ps[1].user_id = "u3"
            /\ ps[2].user_id = "u2"
            /\ ps[3].user_id = shared_expenses[k].creator_id
            /\ \A i \in 1..2 : ps[i].paid = 0 /\ ~ps[i].confirmed

\* the entry without its confirmed flag
unflagged(p) == [p EXCEPT !.confirmed = FALSE]

\* C17: no step changes, in a stored expense, the total_amount or any
\* participant's user id, amount, paid or position: only confirmed flags
\* change after creation.
C17_OnlyFlagsChange ==
    [][ \A k \in 1..Len(shared_expenses) :
          LET d == shared_expenses[k]
              e == shared_expenses'[k]
          IN  /\ e.id = d.id
              /\ e.total_amount = d.total_amount
              /\ e.creator_id = d.creator_id
              /\ e.split_type = d.split_type
              /\ Len(e.participants) = Len(d.participants)
              /\ \A i \in 1..Len(d.participants) :
                   unflagged(e.participants[i])
                     = unflagged(d.participants[i]) ]_vars

\* an invitee confirmed, and the stored expense is what its creation built
\* but for that flag
C17_Witness ==
    /\ response.op = "confirm"
    /\ response.status = 200
    /\ \E k \in 1..Len(shared_expenses) :
         LET d == shared_expenses[k]
             built == build_participants(
                          CHOOSE u \in users : u.id = d.creator_id,
                          createInputs[k], d.total_amount, d.split_type)
         IN  /\ d.id = response.expense_id
             /\ response.caller # d.creator_id
             /\ d.participants # built
             /\ d.split_type = "equal"
             /\ Len(d.participants) = Len(built)
             /\ \A i \in 1..Len(built) :
                  unflagged(d.participants[i]) = unflagged(built[i])

\* C18: every participant of a custom-split expense has amount 0, and its
\* settlements report every participant "settled", the creator with a
\* balance of total_amount.
C18_CustomSplit ==
    /\ \A k \in 1..Len(shared_expenses) :
         shared_expenses[k].split_type = "custom"
         => \A i \in 1..Len(shared_expenses[k].participants) :
              shared_expenses[k].participants[i].amount = 0
    /\ ( /\ response.op = "settlements"
         /\ response.status = 200
         /\ stored(response.expense_id).split_type = "custom" )
       => LET recs == response.settlements
          IN  /\ \A i \in 1..Len(recs) : recs[i].status = "settled"
              /\ recs[Len(recs)].balance
                   = stored(response.expense_id).total_amount

\* C19: an entry that comes after another entry of the same user, the
\* creator's own last entry aside, is never confirmed; and a confirm call
\* changes, in the list it read, the first entry of its caller and no
\* other.
C19_FirstEntryOnly ==
    /\ [](\A k \in 1..Len(shared_expenses) :
            LET ps == shared_expenses[k].participants
            IN  \A i \in 1..(Len(ps) - 1) :
                  (\E j \in 1..(i - 1) : ps[j].user_id = ps[i].user_id)
                  => ~ps[i].confirmed)
    /\ [][ \A r \in 1..MaxReqs :
             (reqs[r].pc = "idle" /\ reqs'[r].pc = "write")
             => LET read == stored(reqs'[r].expense_id).participants
                    kept == reqs'[r].participants
                    mine == entries_of(read, reqs'[r].caller)
                IN  /\ Len(kept) = Len(read)
                    /\ \A i \in 1..Len(read) :
                         IF i \in mine /\ \A j \in mine : i <= j
                         THEN kept[i] = [read[i] EXCEPT !.confirmed = TRUE]
                         ELSE kept[i] = read[i] ]_vars

\* an invitee named twice has confirmed: the first entry is confirmed, the
\* second is not
C19_Witness ==
    \E k \in 1..Len(shared_expenses) :
        LET d == shared_expenses[k]
            ps == d.participants
        IN  /\ Len(ps) = 3
            /\ ps[1].user_id = ps[2].user_id
            /\ ps[1].user_id # d.creator_id
            /\ <<ps[1].user_id, d.id>> \in confirmCalls
            /\ confirms_completed(d.id)
            /\ ps[1].confirmed
            /\ ~ps[2].confirmed

RECURSIVE sum_paid(_)
sum_paid(ps) == IF ps = <<>> THEN 0 ELSE Head(ps).paid + sum_paid(Tail(ps))

\* C20: in every stored expense the paid amounts of all entries add up to
\* total_amount.
C20_PaidSum ==
    \A k \in 1..Len(shared_expenses) :
        sum_paid(shared_expenses[k].participants)
          = shared_expenses[k].total_amount

\* an equal split with an invitee who has confirmed: the creator's last
\* entry alone carries a paid amount, the total
C20_Witness ==
    \E k \in 1..Len(shared_expenses) :
        LET d == shared_expenses[k]
            ps == d.participants
        IN  /\ Len(ps) = 3
            /\ d.split_type = "equal"
            /\ d.total_amount > 0
            /\ ps[1].confirmed
            /\ ps[1].amount > 0
            /\ ps[1].paid = 0 /\ ps[2].paid = 0
            /\ ps[3].paid = d.total_amount

\* C21: the step in which a confirm call performs its write leaves the
\* caller's entry confirmed in the stored expense; hence whenever the last
\* answer sent is a confirm's 200, its caller, the one whose write was
\* applied last to that expense, is confirmed in the stored expense.
C21_WriterConfirmed ==
    /\ [][ \A r \in 1..MaxReqs :
             (reqs[r].pc = "write" /\ reqs'[r].pc = "idle")
             => LET q == reqs[r]
                    k == CHOOSE i \in find_one(q.expense_id) :
                           \A j \in find_one(q.expense_id) : i <= j
                IN  /\ find_one(q.expense_id) # {}
                    /\ q.caller \in user_ids(shared_expenses'[k].participants)
                    /\ entry_of(shared_expenses'[k].participants,
                                q.caller).confirmed ]_vars
    /\ []((response.op = "confirm" /\ response.status = 200)
          => /\ ~absent(response.expense_id)
             /\ response.caller
                  \in user_ids(stored(response.expense_id).participants)
             /\ entry_of(stored(response.expense_id).participants,
                         response.caller).confirmed)

\* two invitees confirmed concurrently and both calls have completed: the
\* one whose write came last is confirmed, the other's flag was overwritten
C21_Witness ==
    /\ response.op = "confirm"
    /\ response.status = 200
    /\ confirms_completed(response.expense_id)
    /\ \E v \in UserIds :
         LET d == stored(response.expense_id)
         IN  /\ v # response.caller
             /\ v # d.creator_id
             /\ <<v, d.id>> \in confirmCalls
             /\ <<response.caller, d.id>> \in confirmCalls
             /\ entry_of(d.participants, response.caller).confirmed
             /\ ~entry_of(d.participants, v).confirmed

====
